---- MODULE Spec2Model ----
(***************************************************************************)
(* Model of src/main.py: the credential lifecycle (get_auth_code,          *)
(* get_initial_tokens, get_spotify_access_token, check_token), the track   *)
(* poller (get_current_track), the presence synchronizer                   *)
(* (update_discord_status) and the main loop (run, cleanup).               *)
(*                                                                         *)
(* Times are integers in milliseconds; time.time() is the variable now.    *)
(* Python's None is the string None for strings and NoTime for numbers.    *)
(***************************************************************************)
EXTENDS Integers, Sequences, FiniteSets, TLC

None == "None"
Missing == "Missing"        \* a key that is absent from a JSON body
NoTime == -1                \* None where the field is otherwise a number

(* ---------------- bounds and input domains ---------------- *)
MaxCycles == 3              \* iterations of the while loop of run()

StartTimes == {20500}                   \* time.time() at process start, ms
Delays == {0}                           \* duration of one network call, ms
ExpiresIn == {10, 30}                   \* expires_in of a token response, s
AccessTokens == {"A1"}
StoredTokens == {"R1"}                  \* refresh token found on disk
RefreshTokens == {"R2"}                 \* refresh token of a response
Codes == {"c1"}                         \* value of the code query parameter
Tracks == {"T1", "T2"}
ProgressMs == {5000, 15500}
DurationsMs == {180500}

SleepMs == 10000            \* for _ in range(10): time.sleep(1)
CooldownMs == 10000         \* time.sleep(10) after "Main loop error"
ListenerTimeoutMs == 30000  \* server.timeout = 30

(* ---------------- responses of the remote services ---------------- *)
\* The token endpoint: status 0 stands for a network exception or timeout
\* raised by requests.post; a 200 response carries a body.
NoBody == [parsable |-> FALSE, access_token |-> Missing,
           refresh_token |-> Missing, expires_in |-> NoTime]
Bodies ==
    {NoBody} \cup
    [parsable : {TRUE}, access_token : AccessTokens \cup {Missing},
     refresh_token : RefreshTokens \cup {Missing},
     expires_in : ExpiresIn \cup {NoTime}]
TokenResponses ==
    [status : {0, 401, 500}, body : {NoBody}] \cup [status : {200}, body : Bodies]

\* The playback API: 200 with a snapshot, 204, another status, or an exception
NoInfo == [id |-> None, progress_ms |-> 0, duration_ms |-> 0]
Snapshots == [id : Tracks, progress_ms : ProgressMs, duration_ms : DurationsMs]
\* a 200 body whose item is null
NoItem == [id |-> Missing, progress_ms |-> 0, duration_ms |-> 0]
ApiResponses ==
    [status : {200}, json : Snapshots \cup {NoItem}]
       \cup [status : {0, 204, 500}, json : {NoInfo}]

\* What happens to the callback listener of one authorization attempt
Flows == {"bind_error", "timeout", "code", "nocode", "notfound"}

(* ---------------- Token Store ---------------- *)
\* m is the record of the fields of SpotifyNowPlaying that the token
\* operations use, with the two files they touch.

\* save_tokens_to_file that also writes an absent refresh token.
save_tokens_to_file_null(m, write_ok) ==
    IF write_ok THEN [m EXCEPT !.data_file = m.refresh_token]
    ELSE m

save_tokens_to_file(m, write_ok) ==
    IF m.refresh_token = None THEN m
    ELSE IF write_ok THEN [m EXCEPT !.data_file = m.refresh_token]
    ELSE m

(* ---------------- Authorization Flow ---------------- *)
\* flow says what reaches the listener of this attempt; code is the value
\* of the code query parameter when flow = "code". The result carries the
\* state, whether an exception left the function, the returned code, the
\* time at return and whether the browser had been opened.
get_auth_code(m, flow, code, t) ==
    IF flow = "bind_error"
    THEN [m |-> m, raised |-> TRUE, code |-> None, t |-> t, browser |-> TRUE]
    ELSE LET written == IF flow = "code"
                        THEN [m EXCEPT !.callback_file = code] ELSE m
             t1 == IF flow = "timeout" THEN t + ListenerTimeoutMs ELSE t
         IN  IF written.callback_file # None
             THEN [m |-> [written EXCEPT !.callback_file = None],
                   raised |-> FALSE, code |-> written.callback_file,
                   t |-> t1, browser |-> TRUE]
             ELSE [m |-> written, raised |-> FALSE, code |-> None,
                   t |-> t1, browser |-> TRUE]

(* ---------------- Token Lifecycle Manager ---------------- *)
NoResp == [status |-> NoTime, body |-> NoBody]   \* no token request was sent

\* resp is the answer of the token endpoint, d the time the request takes.
get_initial_tokens(m, auth_code, resp, t, d, write_ok) ==
    IF auth_code = None
    THEN [m |-> m, ret |-> "false", t |-> t, resp |-> NoResp]
    ELSE IF resp.status # 200 \/ ~resp.body.parsable
              \/ resp.body.access_token = Missing
    THEN [m |-> m, ret |-> "false", t |-> t + d, resp |-> resp]
    ELSE LET m1 == [m EXCEPT
                      !.access_token = resp.body.access_token,
                      !.refresh_token =
                          IF resp.body.refresh_token = Missing
                          THEN @ ELSE resp.body.refresh_token]
         IN  IF resp.body.expires_in = NoTime
             THEN [m |-> m1, ret |-> "false", t |-> t + d, resp |-> resp]
             ELSE [m |-> save_tokens_to_file(
                           [m1 EXCEPT !.token_expires =
                                (t + d) + resp.body.expires_in * 1000],
                           write_ok),
                   ret |-> "true", t |-> t + d, resp |-> resp]


\* get_spotify_access_token that keeps the refresh token after a non-200
\* answer to the refresh-token grant.
get_spotify_access_token_keep(m, t, flow, code, resp, d, write_ok) ==
    IF m.refresh_token = None
    THEN LET a == get_auth_code(m, flow, code, t)
             g == get_initial_tokens(a.m, a.code, resp, a.t, d, write_ok)
         IN  IF a.raised
             THEN [m |-> a.m, ret |-> "raise", t |-> a.t, path |-> "authflow",
                   grant |-> "none", resp |-> NoResp]
             ELSE [m |-> g.m, ret |-> g.ret, t |-> g.t, path |-> "authflow",
                   grant |-> IF g.resp = NoResp THEN "none"
                             ELSE "authorization_code",
                   resp |-> g.resp]
    ELSE LET out(m2, ret) == [m |-> m2, ret |-> ret, t |-> t + d,
                              path |-> "refresh", grant |-> "refresh_token",
                              resp |-> resp]
         IN  IF resp.status = 0 THEN out(m, "false")
             ELSE IF resp.status # 200
             THEN out(m, "false")
             ELSE IF ~resp.body.parsable \/ resp.body.access_token = Missing
             THEN out(m, "false")
             ELSE LET m1 == [m EXCEPT !.access_token = resp.body.access_token]
                  IN  IF resp.body.expires_in = NoTime
                      THEN out(m1, "false")
                      ELSE LET m2 == [m1 EXCEPT !.token_expires =
                                        (t + d) + resp.body.expires_in * 1000]
                           IN  IF resp.body.refresh_token # Missing
                               THEN out(save_tokens_to_file(
                                          [m2 EXCEPT !.refresh_token =
                                               resp.body.refresh_token],
                                          write_ok), "true")
                               ELSE out(m2, "true")

\* get_spotify_access_token that clears the refresh token also when the
\* token request raises.
get_spotify_access_token_drop(m, t, flow, code, resp, d, write_ok) ==
    IF m.refresh_token = None
    THEN LET a == get_auth_code(m, flow, code, t)
             g == get_initial_tokens(a.m, a.code, resp, a.t, d, write_ok)
         IN  IF a.raised
             THEN [m |-> a.m, ret |-> "raise", t |-> a.t, path |-> "authflow",
                   grant |-> "none", resp |-> NoResp]
             ELSE [m |-> g.m, ret |-> g.ret, t |-> g.t, path |-> "authflow",
                   grant |-> IF g.resp = NoResp THEN "none"
                             ELSE "authorization_code",
                   resp |-> g.resp]
    ELSE LET out(m2, ret) == [m |-> m2, ret |-> ret, t |-> t + d,
                              path |-> "refresh", grant |-> "refresh_token",
                              resp |-> resp]
         IN  IF resp.status = 0
             THEN out([m EXCEPT !.refresh_token = None], "false")
             ELSE IF resp.status # 200
             THEN out([m EXCEPT !.refresh_token = None], "false")
             ELSE IF ~resp.body.parsable \/ resp.body.access_token = Missing
             THEN out(m, "false")
             ELSE LET m1 == [m EXCEPT !.access_token = resp.body.access_token]
                  IN  IF resp.body.expires_in = NoTime
                      THEN out(m1, "false")
                      ELSE LET m2 == [m1 EXCEPT !.token_expires =
                                        (t + d) + resp.body.expires_in * 1000]
                           IN  IF resp.body.refresh_token # Missing
                               THEN out(save_tokens_to_file(
                                          [m2 EXCEPT !.refresh_token =
                                               resp.body.refresh_token],
                                          write_ok), "true")
                               ELSE out(m2, "true")

\* The result: ret is "true", "false" or "raise"; path is the branch taken;
\* grant is the grant_type of the token request that was sent, if any.
get_spotify_access_token(m, t, flow, code, resp, d, write_ok) ==
    IF m.refresh_token = None
    THEN LET a == get_auth_code(m, flow, code, t)
             g == get_initial_tokens(a.m, a.code, resp, a.t, d, write_ok)
         IN  IF a.raised
             THEN [m |-> a.m, ret |-> "raise", t |-> a.t, path |-> "authflow",
                   grant |-> "none", resp |-> NoResp]
             ELSE [m |-> g.m, ret |-> g.ret, t |-> g.t, path |-> "authflow",
                   grant |-> IF g.resp = NoResp THEN "none"
                             ELSE "authorization_code",
                   resp |-> g.resp]
    ELSE LET out(m2, ret) == [m |-> m2, ret |-> ret, t |-> t + d,
                              path |-> "refresh", grant |-> "refresh_token",
                              resp |-> resp]
         IN  IF resp.status = 0 THEN out(m, "false")
             ELSE IF resp.status # 200
             THEN out([m EXCEPT !.refresh_token = None], "false")
             ELSE IF ~resp.body.parsable \/ resp.body.access_token = Missing
             THEN out(m, "false")
             ELSE LET m1 == [m EXCEPT !.access_token = resp.body.access_token]
                  IN  IF resp.body.expires_in = NoTime
                      THEN out(m1, "false")
                      ELSE LET m2 == [m1 EXCEPT !.token_expires =
                                        (t + d) + resp.body.expires_in * 1000]
                           IN  IF resp.body.refresh_token # Missing
                               THEN out(save_tokens_to_file(
                                          [m2 EXCEPT !.refresh_token =
                                               resp.body.refresh_token],
                                          write_ok), "true")
                               ELSE out(m2, "true")


\* check_token that takes a token expiring now as still valid.
check_token_late(m, t, flow, code, resp, d, write_ok) ==
    IF m.access_token = None \/ t > m.token_expires
    THEN get_spotify_access_token(m, t, flow, code, resp, d, write_ok)
    ELSE [m |-> m, ret |-> "true", t |-> t, path |-> "valid",
          grant |-> "none", resp |-> NoResp]

check_token(m, t, flow, code, resp, d, write_ok) ==
    IF m.access_token = None \/ t >= m.token_expires
    THEN get_spotify_access_token(m, t, flow, code, resp, d, write_ok)
    ELSE [m |-> m, ret |-> "true", t |-> t, path |-> "valid",
          grant |-> "none", resp |-> NoResp]

(* ---------------- Track Poller ---------------- *)
\* get_current_track that sends the request after a failed credential check
\* too.
get_current_track_eager(m, t, flow, code, resp, d, write_ok, api) ==
    LET c == check_token(m, t, flow, code, resp, d, write_ok)
    IN  IF c.ret = "raise"
        THEN [c |-> c, raised |-> TRUE, track_info |-> NoInfo,
              kind |-> "error", api_request |-> FALSE, t |-> c.t]
        ELSE IF c.ret = "false"
        THEN [c |-> c, raised |-> FALSE, track_info |-> NoInfo,
              kind |-> "error", api_request |-> TRUE, t |-> c.t + d]
        ELSE [c |-> c, raised |-> FALSE,
              track_info |-> IF api.status = 200 THEN api.json ELSE NoInfo,
              kind |-> IF api.status = 200
                       THEN IF api.json = NoItem THEN "noitem" ELSE "track"
                       ELSE IF api.status = 204 THEN "notrack" ELSE "error",
              api_request |-> TRUE, t |-> c.t + d]

\* api is the answer of the playback API. The result carries the result of
\* the credential check (c), the returned value (track_info), whether a
\* request was sent, and kind: what the poll was ("track", "noitem",
\* "notrack", "error"), which the returned value alone does not tell.
get_current_track(m, t, flow, code, resp, d, write_ok, api) ==
    LET c == check_token(m, t, flow, code, resp, d, write_ok)
    IN  IF c.ret = "raise"
        THEN [c |-> c, raised |-> TRUE, track_info |-> NoInfo,
              kind |-> "error", api_request |-> FALSE, t |-> c.t]
        ELSE IF c.ret = "false"
        THEN [c |-> c, raised |-> FALSE, track_info |-> NoInfo,
              kind |-> "error", api_request |-> FALSE, t |-> c.t]
        ELSE [c |-> c, raised |-> FALSE,
              track_info |-> IF api.status = 200 THEN api.json ELSE NoInfo,
              kind |-> IF api.status = 200
                       THEN IF api.json = NoItem THEN "noitem" ELSE "track"
                       ELSE IF api.status = 204 THEN "notrack" ELSE "error",
              api_request |-> TRUE, t |-> c.t + d]

(* ---------------- Presence Synchronizer ---------------- *)
NoPresence == [id |-> None, start |-> NoTime, end |-> NoTime]


\* update_discord_status that empties track_start_time with the clear.
update_discord_status_reset(s, info, t, rpc_ok) ==
    IF ~s.discord_rpc
    THEN [s |-> s, call |-> "none", raised |-> FALSE, computed |-> FALSE,
          exc |-> FALSE, start |-> NoTime, end |-> NoTime]
    ELSE IF info = NoInfo
    THEN IF rpc_ok
         THEN [s |-> [s EXCEPT !.current_track_id = None,
                               !.track_start_time = NoTime,
                               !.presence = NoPresence],
               call |-> "clear", raised |-> FALSE, computed |-> FALSE,
               exc |-> FALSE, start |-> NoTime, end |-> NoTime]
         ELSE [s |-> s, call |-> "clear", raised |-> TRUE,
               computed |-> FALSE,
               exc |-> FALSE, start |-> NoTime, end |-> NoTime]
    ELSE IF info.id = Missing
    THEN [s |-> s, call |-> "none", raised |-> FALSE, computed |-> FALSE,
          exc |-> TRUE, start |-> NoTime, end |-> NoTime]
    ELSE LET changed == info.id # s.current_track_id
             s1 == IF changed
                   THEN [s EXCEPT !.current_track_id = info.id,
                                  !.track_start_time =
                                      (t - info.progress_ms) \div 1000]
                   ELSE s
             shown == [id |-> info.id, start |-> s1.track_start_time,
                       end |-> s1.track_start_time
                                 + (info.duration_ms \div 1000)]
         IN  [s |-> IF rpc_ok THEN [s1 EXCEPT !.presence = shown] ELSE s1,
              call |-> "update", raised |-> ~rpc_ok, computed |-> changed,
              exc |-> FALSE, start |-> shown.start, end |-> shown.end]

\* update_discord_status that anchors a new track at the poll time.
update_discord_status_wallclock(s, info, t, rpc_ok) ==
    IF ~s.discord_rpc
    THEN [s |-> s, call |-> "none", raised |-> FALSE, computed |-> FALSE,
          exc |-> FALSE, start |-> NoTime, end |-> NoTime]
    ELSE IF info = NoInfo
    THEN IF rpc_ok
         THEN [s |-> [s EXCEPT !.current_track_id = None,
                               !.presence = NoPresence],
               call |-> "clear", raised |-> FALSE, computed |-> FALSE,
               exc |-> FALSE, start |-> NoTime, end |-> NoTime]
         ELSE [s |-> s, call |-> "clear", raised |-> TRUE,
               computed |-> FALSE,
               exc |-> FALSE, start |-> NoTime, end |-> NoTime]
    ELSE IF info.id = Missing
    THEN [s |-> s, call |-> "none", raised |-> FALSE, computed |-> FALSE,
          exc |-> TRUE, start |-> NoTime, end |-> NoTime]
    ELSE LET changed == info.id # s.current_track_id
             s1 == IF changed
                   THEN [s EXCEPT !.current_track_id = info.id,
                                  !.track_start_time =
                                      t \div 1000]
                   ELSE s
             shown == [id |-> info.id, start |-> s1.track_start_time,
                       end |-> s1.track_start_time
                                 + (info.duration_ms \div 1000)]
         IN  [s |-> IF rpc_ok THEN [s1 EXCEPT !.presence = shown] ELSE s1,
              call |-> "update", raised |-> ~rpc_ok, computed |-> changed,
              exc |-> FALSE, start |-> shown.start, end |-> shown.end]

\* update_discord_status that issues no update for an unchanged track_id.
update_discord_status_quiet(s, info, t, rpc_ok) ==
    IF ~s.discord_rpc
    THEN [s |-> s, call |-> "none", raised |-> FALSE, computed |-> FALSE,
          exc |-> FALSE, start |-> NoTime, end |-> NoTime]
    ELSE IF info = NoInfo
    THEN IF rpc_ok
         THEN [s |-> [s EXCEPT !.current_track_id = None,
                               !.presence = NoPresence],
               call |-> "clear", raised |-> FALSE, computed |-> FALSE,
               exc |-> FALSE, start |-> NoTime, end |-> NoTime]
         ELSE [s |-> s, call |-> "clear", raised |-> TRUE,
               computed |-> FALSE,
               exc |-> FALSE, start |-> NoTime, end |-> NoTime]
    ELSE IF info.id = Missing
    THEN [s |-> s, call |-> "none", raised |-> FALSE, computed |-> FALSE,
          exc |-> TRUE, start |-> NoTime, end |-> NoTime]
    ELSE LET changed == info.id # s.current_track_id
             s1 == IF changed
                   THEN [s EXCEPT !.current_track_id = info.id,
                                  !.track_start_time =
                                      (t - info.progress_ms) \div 1000]
                   ELSE s
             shown == [id |-> info.id, start |-> s1.track_start_time,
                       end |-> s1.track_start_time
                                 + (info.duration_ms \div 1000)]
         IN  [s |-> IF rpc_ok THEN [s1 EXCEPT !.presence = shown] ELSE s1,
              call |-> IF changed THEN "update" ELSE "none",
              raised |-> ~rpc_ok, computed |-> changed,
              exc |-> FALSE, start |-> shown.start, end |-> shown.end]

\* s holds discord_rpc (TRUE when a Presence object exists), SyncState
\* (current_track_id, track_start_time) and presence, the activity Discord
\* displays. rpc_ok says whether the one presence call of this sync returns
\* (TRUE) or raises (FALSE); a call that raises leaves the display as it was.
\* The result carries the call that was issued with its start and end,
\* whether it raised (caught and logged), whether line 596 ran, and exc:
\* whether an exception left the function, which line 591 raises for a 200
\* body without an item.
update_discord_status(s, info, t, rpc_ok) ==
    IF ~s.discord_rpc
    THEN [s |-> s, call |-> "none", raised |-> FALSE, computed |-> FALSE,
          exc |-> FALSE, start |-> NoTime, end |-> NoTime]
    ELSE IF info = NoInfo
    THEN IF rpc_ok
         THEN [s |-> [s EXCEPT !.current_track_id = None,
                               !.presence = NoPresence],
               call |-> "clear", raised |-> FALSE, computed |-> FALSE,
               exc |-> FALSE, start |-> NoTime, end |-> NoTime]
         ELSE [s |-> s, call |-> "clear", raised |-> TRUE,
               computed |-> FALSE,
               exc |-> FALSE, start |-> NoTime, end |-> NoTime]
    ELSE IF info.id = Missing
    THEN [s |-> s, call |-> "none", raised |-> FALSE, computed |-> FALSE,
          exc |-> TRUE, start |-> NoTime, end |-> NoTime]
    ELSE LET changed == info.id # s.current_track_id
             s1 == IF changed
                   THEN [s EXCEPT !.current_track_id = info.id,
                                  !.track_start_time =
                                      (t - info.progress_ms) \div 1000]
                   ELSE s
             shown == [id |-> info.id, start |-> s1.track_start_time,
                       end |-> s1.track_start_time
                                 + (info.duration_ms \div 1000)]
         IN  [s |-> IF rpc_ok THEN [s1 EXCEPT !.presence = shown] ELSE s1,
              call |-> "update", raised |-> ~rpc_ok, computed |-> changed,
              exc |-> FALSE, start |-> shown.start, end |-> shown.end]

(* ---------------- shutdown ---------------- *)
\* clear_ok says whether clear() returns or raises; close() is not reached
\* when clear() raises, and an exception of close() is caught and logged.
\* closes counts the close() calls.
cleanup(s, clear_ok) ==
    LET s1 == IF s.discord_rpc
              THEN IF clear_ok
                   THEN [s EXCEPT !.presence = NoPresence,
                                  !.closes = @ + 1]
                   ELSE s
              ELSE s
    IN  [s1 EXCEPT !.callback_file = None, !.cleanups = @ + 1]

(* ---------------- the program state ---------------- *)
VARIABLES
    access_token, refresh_token, token_expires,   \* Credentials
    data_file,            \* refresh_token of spotify_discord_status.json
    callback_file,        \* content of callback_code.txt, None if absent
    discord_rpc,          \* TRUE when connect_discord() succeeded
    current_track_id, track_start_time,           \* SyncState
    presence,             \* the activity Discord displays
    running,              \* self.running
    pc,                   \* "run", "poll", "sync", "sleep", "stopped"
    track_info,           \* the value get_current_track() returned
    now,                  \* time.time(), ms
    cycles,               \* iterations of the while loop started
    closes, cleanups,     \* calls of discord_rpc.close() and of cleanup()
    exit_code,            \* NoTime while the process runs
    interrupted,          \* a KeyboardInterrupt was delivered
    tok_ev,               \* the last token operation: what it did
    poll_ev,              \* the last poll that returned: what it was
    prev_poll,            \* the poll that returned before that one
    sync_ev               \* the last sync: what it called, and SyncState
                          \* (from) and the display (was_shown) before it

\* The Authorization Flow step by step (get_auth_code, CallbackHandler).
VARIABLES
    apc,                  \* position inside the flow: "idle", "opened" (the
                          \* browser has the URL), "listening" (inside
                          \* handle_request), "handled" (it returned),
                          \* "exchange" (get_auth_code returned)
    server,               \* the HTTPServer of this attempt is bound
    shutdown_thread,      \* do_GET started the thread of server.shutdown
    leaked,               \* a server of an earlier attempt is still bound
    attempts,             \* attempts made by all processes
    restarts,             \* processes killed and started again
    auth_ev               \* what happened in the current attempt

authvars == <<apc, server, shutdown_thread, leaked, attempts, restarts,
              auth_ev>>

vars == <<access_token, refresh_token, token_expires, data_file,
          callback_file, discord_rpc, current_track_id, track_start_time,
          presence, running, pc, track_info, now, cycles, closes, cleanups,
          exit_code, interrupted, tok_ev, poll_ev, prev_poll, sync_ev,
          authvars>>

Mem == [access_token |-> access_token, refresh_token |-> refresh_token,
        token_expires |-> token_expires, data_file |-> data_file,
        callback_file |-> callback_file]

SyncSt == [discord_rpc |-> discord_rpc, current_track_id |-> current_track_id,
           track_start_time |-> track_start_time, presence |-> presence]

Shut == [discord_rpc |-> discord_rpc, presence |-> presence,
         callback_file |-> callback_file, closes |-> closes,
         cleanups |-> cleanups]

NoTokEv == [op |-> "none", path |-> "none", ret |-> "none", grant |-> "none",
            status |-> NoTime, parsable |-> FALSE, t |-> NoTime,
            after401 |-> FALSE, write_failed |-> FALSE]
NoPollEv == [kind |-> "none", id |-> None, api_request |-> FALSE]
\* browser: the URL was opened; bind_failed: HTTPServer() raised; lost: a
\* redirect found no listener accepting; response: the status the handler
\* sent; req_code: the code parameter of the handled request; returned:
\* get_auth_code returned; auth_code: what it returned; exchanged: the code
\* of the token request that followed.
NoAuthEv == [browser |-> FALSE, bind_failed |-> FALSE, lost |-> FALSE,
             response |-> "none", req_code |-> None, timed_out |-> FALSE,
             returned |-> FALSE, auth_code |-> None, exchanged |-> None]
NoSyncEv == [call |-> "none", raised |-> FALSE, computed |-> FALSE,
             exc |-> FALSE, start |-> NoTime, end |-> NoTime,
             from |-> None, was_shown |-> FALSE]

\* after401: the token operation before this one was a refresh-token grant
\* that the token endpoint answered with 401. write_failed: a write of the
\* data file by this or an earlier token operation raised.
TokEv(op, c) == [op |-> op, path |-> c.path, ret |-> c.ret, grant |-> c.grant,
                 status |-> c.resp.status, parsable |-> c.resp.body.parsable,
                 t |-> c.t,
                 after401 |-> (tok_ev.path = "refresh" /\ tok_ev.status = 401),
                 write_failed |-> tok_ev.write_failed]

\* __init__: ensure_data_file() loads the persisted refresh token (or writes
\* a null record), connect_discord() succeeds or leaves discord_rpc None.
Init ==
    /\ data_file \in StoredTokens \cup {None}
    /\ refresh_token = data_file
    /\ access_token = None
    /\ token_expires = 0
    /\ callback_file = None
    /\ discord_rpc \in BOOLEAN
    /\ current_track_id = None
    /\ track_start_time = NoTime
    /\ presence = NoPresence
    /\ running = FALSE
    /\ pc = "run"
    /\ track_info = NoInfo
    /\ now \in StartTimes
    /\ cycles = 0
    /\ closes = 0
    /\ cleanups = 0
    /\ exit_code = NoTime
    /\ interrupted = FALSE
    /\ tok_ev = NoTokEv
    /\ poll_ev = NoPollEv
    /\ prev_poll = NoPollEv
    /\ sync_ev = NoSyncEv
    /\ apc = "idle"
    /\ server = FALSE
    /\ shutdown_thread = FALSE
    /\ leaked = FALSE
    /\ attempts = 0
    /\ restarts = 0
    /\ auth_ev = NoAuthEv

(* ---------------- run() ---------------- *)
SetMem(m) ==
    /\ access_token' = m.access_token
    /\ refresh_token' = m.refresh_token
    /\ token_expires' = m.token_expires
    /\ data_file' = m.data_file
    /\ callback_file' = m.callback_file

SetShut(s) ==
    /\ presence' = s.presence
    /\ callback_file' = s.callback_file
    /\ closes' = s.closes
    /\ cleanups' = s.cleanups

\* run() with a refresh token loaded: straight to the loop.
RunWithToken ==
    /\ pc = "run"
    /\ refresh_token # None
    /\ running' = TRUE
    /\ pc' = "poll"
    /\ UNCHANGED authvars
    /\ UNCHANGED <<access_token, refresh_token, token_expires, data_file,
                   callback_file, discord_rpc, current_track_id,
                   track_start_time, presence, track_info, now, cycles,
                   closes, cleanups, exit_code, interrupted, tok_ev,
                   poll_ev, prev_poll, sync_ev>>

\* run() without a refresh token: get_auth_code(), get_initial_tokens().
\* A failed exchange returns from run() through the finally clause; an
\* exception of get_auth_code() leaves run() through the finally clause and
\* reaches the handler of main(), which calls cleanup() again and exits 1.
RunAuthorize ==
    /\ pc = "run"
    /\ refresh_token = None
    /\ \E flow \in Flows, code \in Codes, resp \in TokenResponses,
          d \in Delays, write_ok \in BOOLEAN, ok1 \in BOOLEAN, ok2 \in BOOLEAN :
          LET a == get_auth_code(Mem, flow, code, now)
              g == get_initial_tokens(a.m, a.code, resp, a.t, d, write_ok)
              c == IF a.raised
                   THEN [m |-> a.m, ret |-> "raise", t |-> a.t,
                         path |-> "authflow", grant |-> "none",
                         resp |-> NoResp]
                   ELSE [m |-> g.m, ret |-> g.ret, t |-> g.t,
                         path |-> "authflow",
                         grant |-> IF g.resp = NoResp THEN "none"
                                   ELSE "authorization_code",
                         resp |-> g.resp]
              g_ok == get_initial_tokens(a.m, a.code, resp, a.t, d, TRUE)
              wf == ~a.raised /\ g.m # g_ok.m
              sh0 == [Shut EXCEPT !.callback_file = c.m.callback_file]
              sh1 == cleanup(sh0, ok1)
              sh2 == cleanup(sh1, ok2)
          IN  /\ running' = TRUE
              /\ tok_ev' = [TokEv("run", c) EXCEPT
                              !.write_failed = @ \/ wf]
              /\ now' = c.t
              /\ access_token' = c.m.access_token
              /\ refresh_token' = c.m.refresh_token
              /\ token_expires' = c.m.token_expires
              /\ data_file' = c.m.data_file
              /\ IF c.ret = "raise"
                 THEN SetShut(sh2) /\ pc' = "stopped" /\ exit_code' = 1
                 ELSE IF c.ret = "false"
                 THEN SetShut(sh1) /\ pc' = "stopped" /\ exit_code' = 0
                 ELSE /\ pc' = "poll"
                      /\ callback_file' = c.m.callback_file
                      /\ UNCHANGED <<presence, closes, cleanups, exit_code>>
    /\ UNCHANGED authvars
    /\ UNCHANGED <<discord_rpc, current_track_id, track_start_time,
                   track_info, cycles, interrupted, poll_ev, prev_poll,
                   sync_ev>>

\* The poll without the except clause of the loop: an exception ends run().
PollWith_fatal(flow, code, resp, d, write_ok, api) ==
    LET r == get_current_track(Mem, now, flow, code, resp, d, write_ok, api)
        r_ok == get_current_track(Mem, now, flow, code, resp, d, TRUE, api)
        wf == r.c.m # r_ok.c.m
    IN  /\ SetMem(r.c.m)
        /\ tok_ev' = [TokEv("check_token", r.c) EXCEPT
                        !.write_failed = @ \/ wf]
        /\ cycles' = cycles + 1
        /\ IF r.raised
           THEN /\ pc' = "stopped"
                /\ now' = r.t
                /\ UNCHANGED <<track_info, poll_ev, prev_poll>>
           ELSE /\ pc' = "sync"
                /\ now' = r.t
                /\ track_info' = r.track_info
                /\ poll_ev' = [kind |-> r.kind, id |-> r.track_info.id,
                               api_request |-> r.api_request]
                /\ prev_poll' = poll_ev
        /\ UNCHANGED authvars
        /\ UNCHANGED <<discord_rpc, current_track_id, track_start_time,
                       presence, running, closes, cleanups, exit_code,
                       interrupted, sync_ev>>

\* One get_current_track() of the loop with the given inputs. An exception
\* leaving it is caught by the loop: "Main loop error", time.sleep(10).
PollWith(flow, code, resp, d, write_ok, api) ==
    LET r == get_current_track(Mem, now, flow, code, resp, d, write_ok, api)
        r_ok == get_current_track(Mem, now, flow, code, resp, d, TRUE, api)
        wf == r.c.m # r_ok.c.m
    IN  /\ SetMem(r.c.m)
        /\ tok_ev' = [TokEv("check_token", r.c) EXCEPT
                        !.write_failed = @ \/ wf]
        /\ cycles' = cycles + 1
        /\ IF r.raised
           THEN /\ pc' = "poll"
                /\ now' = r.t + CooldownMs
                /\ UNCHANGED <<track_info, poll_ev, prev_poll>>
           ELSE /\ pc' = "sync"
                /\ now' = r.t
                /\ track_info' = r.track_info
                /\ poll_ev' = [kind |-> r.kind, id |-> r.track_info.id,
                               api_request |-> r.api_request]
                /\ prev_poll' = poll_ev
        /\ UNCHANGED authvars
        /\ UNCHANGED <<discord_rpc, current_track_id, track_start_time,
                       presence, running, closes, cleanups, exit_code,
                       interrupted, sync_ev>>

InLoop == pc = "poll" /\ running /\ cycles < MaxCycles

\* The playback API answers only when it is asked: after a credential check
\* that did not return true its answer is not an input of the poll.
NoApi == [status |-> 0, json |-> NoInfo]
ApisFor(c) == IF c.ret = "true" THEN ApiResponses ELSE {NoApi}

TokenValid == access_token # None /\ now < token_expires

\* The poll with a valid access token: no token request.
PollValid ==
    /\ InLoop /\ TokenValid
    /\ \E d \in Delays :
       \E api \in ApisFor(check_token(Mem, now, "timeout", "c1", NoResp,
                                      d, TRUE)) :
          PollWith("timeout", "c1", NoResp, d, TRUE, api)

\* The poll that sends a refresh-token grant first.
PollRefresh ==
    /\ InLoop /\ ~TokenValid /\ refresh_token # None
    /\ \E resp \in TokenResponses, d \in Delays, write_ok \in BOOLEAN :
       \E api \in ApisFor(check_token(Mem, now, "timeout", "c1", resp,
                                      d, write_ok)) :
          PollWith("timeout", "c1", resp, d, write_ok, api)

\* The poll that runs the Authorization Flow first.
PollAuthorize ==
    /\ InLoop /\ ~TokenValid /\ refresh_token = None
    /\ \E flow \in Flows, code \in Codes, resp \in TokenResponses,
          d \in Delays, write_ok \in BOOLEAN :
       \E api \in ApisFor(check_token(Mem, now, flow, code, resp,
                                      d, write_ok)) :
          PollWith(flow, code, resp, d, write_ok, api)

\* The sync without the except clause of the loop: an exception ends run().
SyncPoll_fatal ==
    /\ pc = "sync"
    /\ \E rpc_ok \in BOOLEAN :
          LET u == update_discord_status(SyncSt, track_info, now, rpc_ok)
          IN  /\ current_track_id' = u.s.current_track_id
              /\ track_start_time' = u.s.track_start_time
              /\ presence' = u.s.presence
              /\ sync_ev' = [call |-> u.call, raised |-> u.raised,
                             computed |-> u.computed, exc |-> u.exc,
                             start |-> u.start, end |-> u.end,
                             from |-> current_track_id,
                             was_shown |-> (presence.id # None)]
              /\ IF u.exc
                 THEN pc' = "stopped" /\ now' = now
                 ELSE pc' = "sleep" /\ now' = now
    /\ UNCHANGED authvars
    /\ UNCHANGED <<access_token, refresh_token, token_expires, data_file,
                   callback_file, discord_rpc, running, track_info,
                   cycles, closes, cleanups, exit_code, interrupted, tok_ev,
                   poll_ev, prev_poll>>

\* update_discord_status(track_info). An exception leaving it is caught by
\* the loop like one of the poll: "Main loop error", time.sleep(10).
SyncPoll ==
    /\ pc = "sync"
    /\ \E rpc_ok \in BOOLEAN :
          LET u == update_discord_status(SyncSt, track_info, now, rpc_ok)
          IN  /\ current_track_id' = u.s.current_track_id
              /\ track_start_time' = u.s.track_start_time
              /\ presence' = u.s.presence
              /\ sync_ev' = [call |-> u.call, raised |-> u.raised,
                             computed |-> u.computed, exc |-> u.exc,
                             start |-> u.start, end |-> u.end,
                             from |-> current_track_id,
                             was_shown |-> (presence.id # None)]
              /\ IF u.exc
                 THEN pc' = "poll" /\ now' = now + CooldownMs
                 ELSE pc' = "sleep" /\ now' = now
    /\ UNCHANGED authvars
    /\ UNCHANGED <<access_token, refresh_token, token_expires, data_file,
                   callback_file, discord_rpc, running, track_info,
                   cycles, closes, cleanups, exit_code, interrupted, tok_ev,
                   poll_ev, prev_poll>>

\* for _ in range(10): time.sleep(1)
Sleep ==
    /\ pc = "sleep"
    /\ now' = now + SleepMs
    /\ pc' = "poll"
    /\ UNCHANGED authvars
    /\ UNCHANGED <<access_token, refresh_token, token_expires, data_file,
                   callback_file, discord_rpc, current_track_id,
                   track_start_time, presence, running, track_info, cycles,
                   closes, cleanups, exit_code, interrupted, tok_ev,
                   poll_ev, prev_poll, sync_ev>>

\* KeyboardInterrupt during the sleep: caught in the loop, running = False,
\* the loop ends and the finally clause runs cleanup().
Interrupt ==
    /\ pc = "sleep"
    /\ running' = FALSE
    /\ interrupted' = TRUE
    /\ \E ok \in BOOLEAN : SetShut(cleanup(Shut, ok))
    /\ pc' = "stopped"
    /\ exit_code' = 0
    /\ UNCHANGED authvars
    /\ UNCHANGED <<access_token, refresh_token, token_expires, data_file,
                   discord_rpc, current_track_id, track_start_time,
                   track_info, now, cycles, tok_ev, poll_ev, prev_poll,
                   sync_ev>>

\* KeyboardInterrupt while run() is in the startup Authorization Flow,
\* outside the try of the loop: it leaves run() through the finally clause
\* (cleanup()) and reaches the handler of main(), which calls cleanup()
\* again and returns.
InterruptStartup ==
    /\ pc = "run"
    /\ refresh_token = None
    /\ running' = TRUE
    /\ interrupted' = TRUE
    /\ \E ok1 \in BOOLEAN, ok2 \in BOOLEAN :
          SetShut(cleanup(cleanup(Shut, ok1), ok2))
    /\ pc' = "stopped"
    /\ exit_code' = 0
    /\ UNCHANGED authvars
    /\ UNCHANGED <<access_token, refresh_token, token_expires, data_file,
                   discord_rpc, current_track_id, track_start_time,
                   track_info, now, cycles, tok_ev, poll_ev, prev_poll,
                   sync_ev>>

Next ==
    \/ RunWithToken
    \/ RunAuthorize
    \/ PollValid
    \/ PollRefresh
    \/ PollAuthorize
    \/ SyncPoll
    \/ Sleep
    \/ Interrupt
    \/ InterruptStartup

Spec == Init /\ [][Next]_vars

TypeOK ==
    /\ access_token \in AccessTokens \cup {None}
    /\ refresh_token \in StoredTokens \cup RefreshTokens \cup {None}
    /\ data_file \in StoredTokens \cup RefreshTokens \cup {None}
    /\ callback_file \in Codes \cup {None}
    /\ current_track_id \in Tracks \cup {None}
    /\ pc \in {"run", "poll", "sync", "sleep", "stopped"}

(* ---------------- the Authorization Flow, step by step ---------------- *)
MaxAttempts == 2          \* attempts of the flow that are followed
MaxRestarts == 1          \* times the process is killed and started again
FlowCodes == {"c1", "c2"} \* code parameters a request can carry
Requests == {"code", "nocode", "notfound"}

loopvars == <<discord_rpc, current_track_id, track_start_time, presence,
              running, pc, track_info, cycles, closes, cleanups, exit_code,
              interrupted, tok_ev, poll_ev, prev_poll, sync_ev>>

\* get_auth_code() up to webbrowser.open(auth_url): the browser has the
\* URL before any listener exists.
OpenBrowser ==
    /\ apc = "idle"
    /\ refresh_token = None
    /\ attempts < MaxAttempts
    /\ apc' = "opened"
    /\ attempts' = attempts + 1
    /\ auth_ev' = [NoAuthEv EXCEPT !.browser = TRUE]
    /\ UNCHANGED <<server, shutdown_thread, leaked, restarts>>
    /\ UNCHANGED <<access_token, refresh_token, token_expires, data_file,
                   callback_file, now>>
    /\ UNCHANGED loopvars

\* The redirect of the browser arrives between webbrowser.open() and
\* HTTPServer(): nothing of this attempt accepts it.
RedirectBeforeBind ==
    /\ apc = "opened"
    /\ ~auth_ev.lost
    /\ auth_ev' = [auth_ev EXCEPT !.lost = TRUE]
    /\ UNCHANGED <<apc, server, shutdown_thread, leaked, attempts, restarts>>
    /\ UNCHANGED <<access_token, refresh_token, token_expires, data_file,
                   callback_file, now>>
    /\ UNCHANGED loopvars

\* server = HTTPServer(('127.0.0.1', REDIRECT_PORT), CallbackHandler): binds
\* and listens, or raises OSError when the port is taken (by another
\* program, or by the server of an earlier attempt that is still bound).
\* The exception leaves get_auth_code().
BindListener ==
    /\ apc = "opened"
    /\ \E bind_ok \in BOOLEAN :
          IF bind_ok
          THEN /\ apc' = "listening"
               /\ server' = TRUE
               /\ auth_ev' = auth_ev
          ELSE /\ apc' = "idle"
               /\ server' = FALSE
               /\ auth_ev' = [auth_ev EXCEPT !.bind_failed = TRUE]
    /\ UNCHANGED <<shutdown_thread, leaked, attempts, restarts>>
    /\ UNCHANGED <<access_token, refresh_token, token_expires, data_file,
                   callback_file, now>>
    /\ UNCHANGED loopvars

\* handle_request() serves one request with CallbackHandler.do_GET:
\* /callback with a code answers 200 and writes callback_code.txt,
\* /callback without one answers 400, both start a thread that calls
\* server.shutdown(); any other path answers 404.
HandleRequest ==
    /\ apc = "listening"
    /\ \E req \in Requests, code \in FlowCodes :
          /\ auth_ev' = [auth_ev EXCEPT
                           !.response = CASE req = "code" -> "200"
                                          [] req = "nocode" -> "400"
                                          [] OTHER -> "404",
                           !.req_code = IF req = "code" THEN code ELSE None]
          /\ callback_file' = IF req = "code" THEN code ELSE callback_file
          /\ shutdown_thread' = (req # "notfound")
    /\ apc' = "handled"
    /\ UNCHANGED <<server, leaked, attempts, restarts>>
    /\ UNCHANGED <<access_token, refresh_token, token_expires, data_file,
                   now>>
    /\ UNCHANGED loopvars

\* handle_request() returns after server.timeout = 30 seconds without a
\* request.
ListenerTimeout ==
    /\ apc = "listening"
    /\ now' = now + ListenerTimeoutMs
    /\ auth_ev' = [auth_ev EXCEPT !.timed_out = TRUE]
    /\ apc' = "handled"
    /\ UNCHANGED <<server, shutdown_thread, leaked, attempts, restarts>>
    /\ UNCHANGED <<access_token, refresh_token, token_expires, data_file,
                   callback_file>>
    /\ UNCHANGED loopvars

\* The end of get_auth_code(): callback_code.txt, when it exists, is read,
\* removed and returned. The server object goes out of scope on return; the
\* thread started by do_GET waits in server.shutdown() for a serve_forever()
\* that never ran and keeps the object, and its bound socket, alive.
ReadCallbackFile ==
    /\ apc = "handled"
    /\ auth_ev' = [auth_ev EXCEPT !.returned = TRUE,
                                  !.auth_code = callback_file]
    /\ callback_file' = None
    /\ leaked' = (leaked \/ shutdown_thread)
    /\ server' = FALSE
    /\ shutdown_thread' = FALSE
    /\ apc' = "exchange"
    /\ UNCHANGED <<attempts, restarts>>
    /\ UNCHANGED <<access_token, refresh_token, token_expires, data_file,
                   now>>
    /\ UNCHANGED loopvars

\* get_initial_tokens(auth_code) with the code get_auth_code() returned.
ExchangeCode ==
    /\ apc = "exchange"
    /\ \E resp \in TokenResponses, d \in Delays, write_ok \in BOOLEAN :
          LET g == get_initial_tokens(Mem, auth_ev.auth_code, resp, now, d,
                                      write_ok)
          IN  /\ SetMem(g.m)
              /\ now' = g.t
              /\ auth_ev' = [auth_ev EXCEPT
                               !.exchanged = IF g.resp = NoResp THEN None
                                             ELSE auth_ev.auth_code]
    /\ apc' = "idle"
    /\ UNCHANGED <<server, shutdown_thread, leaked, attempts, restarts>>
    /\ UNCHANGED loopvars

\* A later refresh-token grant is answered 401: the refresh token is
\* cleared and the next credential check runs the flow again.
RefreshRejected ==
    /\ apc = "idle"
    /\ refresh_token # None
    /\ \E resp \in {r \in TokenResponses : r.status = 401}, d \in Delays :
          LET c == get_spotify_access_token(Mem, now, "timeout", "c1", resp,
                                            d, TRUE)
          IN  SetMem(c.m) /\ now' = c.t
    /\ UNCHANGED authvars
    /\ UNCHANGED loopvars

\* The process is killed and started again: its sockets and threads are
\* gone, __init__ loads the refresh token of the data file, and
\* callback_code.txt stays where the working directory is.
KillAndRestart ==
    /\ restarts < MaxRestarts
    /\ restarts' = restarts + 1
    /\ apc' = "idle"
    /\ server' = FALSE
    /\ shutdown_thread' = FALSE
    /\ leaked' = FALSE
    /\ auth_ev' = NoAuthEv
    /\ access_token' = None
    /\ refresh_token' = data_file
    /\ token_expires' = 0
    /\ UNCHANGED <<attempts, data_file, callback_file, now>>
    /\ UNCHANGED loopvars

AuthNext ==
    \/ OpenBrowser
    \/ RedirectBeforeBind
    \/ BindListener
    \/ HandleRequest
    \/ ListenerTimeout
    \/ ReadCallbackFile
    \/ ExchangeCode
    \/ RefreshRejected
    \/ KillAndRestart

AuthSpec == Init /\ [][AuthNext]_vars

\* A socket of this process is bound to the redirect port.
PortBound == server \/ leaked

(* ---------------- the claims ---------------- *)
SyncStep == pc = "sync" /\ pc' = "sleep"
PollStep == cycles' # cycles

\* C1: in every run of consecutive polls that return a snapshot with the
\* same track_id, track_start_time is computed exactly once, at the first
\* poll of the run, and keeps its value at the later polls of the run.
\* Stated for a connected presence channel and polls that are a snapshot,
\* NoTrack or a poll error: the sync of a snapshot computes the start
\* exactly when the poll before it was not a snapshot of that id.
C1_StartOncePerRun ==
    [][(SyncStep /\ discord_rpc /\ poll_ev.kind = "track"
          /\ prev_poll.kind # "noitem")
         => LET first == ~(prev_poll.kind = "track"
                            /\ prev_poll.id = poll_ev.id)
            IN  /\ sync_ev'.computed = first
                /\ (~first => track_start_time' = track_start_time)]_vars

\* C2: the sync of a poll error leaves SyncState and the display as they
\* were and issues no clear call.
C2_PollErrorKeepsPresence ==
    [][(SyncStep /\ poll_ev.kind = "error")
         => /\ current_track_id' = current_track_id
            /\ track_start_time' = track_start_time
            /\ presence' = presence
            /\ sync_ev'.call # "clear"]_vars

\* C3: after a refresh-token grant answered with 401 the refresh token is
\* absent, and the check_token() call that follows takes the Authorization
\* Flow and sends no refresh-token grant.
C3_Refresh401ThenAuthorize ==
    /\ (tok_ev.path = "refresh" /\ tok_ev.status = 401)
          => (tok_ev.ret = "false" /\ refresh_token = None)
    /\ (tok_ev.op = "check_token" /\ tok_ev.after401)
          => (tok_ev.path = "authflow" /\ tok_ev.grant # "refresh_token")

C3_Witness ==
    /\ tok_ev.op = "check_token"
    /\ tok_ev.after401
    /\ tok_ev.path = "authflow"

\* C4 as claimed: after every failed refresh the refresh token is absent.
C4_FailedRefreshClears ==
    (tok_ev.path = "refresh" /\ tok_ev.ret = "false") => refresh_token = None

\* C4 as amended: after a failed refresh the refresh token is absent exactly
\* when the token endpoint answered with a status other than 200; after a
\* network or timeout error and after a 200 answer with an unusable body it
\* is still present.
C4_FailedRefreshClearsOnStatus ==
    (tok_ev.path = "refresh" /\ tok_ev.ret = "false")
       => (refresh_token = None <=> tok_ev.status \notin {0, 200})

C4_Witness ==
    /\ tok_ev.path = "refresh"
    /\ tok_ev.ret = "false"
    /\ tok_ev.status = 200
    /\ ~tok_ev.parsable
    /\ refresh_token # None

\* C5: the sync of a NoTrack poll while a track is shown issues a clear
\* call, and the sync of a further consecutive NoTrack poll leaves SyncState
\* as the first one left it.
C5_NoTrackClearIdempotent ==
    [][(SyncStep /\ poll_ev.kind = "notrack" /\ presence.id # None)
         => /\ sync_ev'.call = "clear"
            /\ prev_poll.kind = "notrack"
                 => /\ current_track_id' = current_track_id
                    /\ track_start_time' = track_start_time]_vars

\* C6 as claimed: after the sync of a NoTrack poll while a presence is shown
\* current_track_id and track_start_time are both absent.
C6_NoTrackEmptiesSyncState ==
    [][(SyncStep /\ poll_ev.kind = "notrack" /\ presence.id # None)
         => (current_track_id' = None /\ track_start_time' = NoTime)]_vars

\* C6 as amended: the sync of a NoTrack poll while a presence is shown
\* leaves track_start_time as it was; current_track_id is absent after it
\* when the clear call returned and unchanged when the clear call raised.
C6_NoTrackClearsTrackId ==
    [][(SyncStep /\ poll_ev.kind = "notrack" /\ presence.id # None)
         => /\ track_start_time' = track_start_time
            /\ current_track_id' = IF sync_ev'.raised
                                   THEN current_track_id ELSE None]_vars

C6_Witness ==
    /\ pc = "sleep"
    /\ poll_ev.kind = "notrack"
    /\ sync_ev.was_shown
    /\ sync_ev.call = "clear"
    /\ ~sync_ev.raised
    /\ current_track_id = None
    /\ track_start_time # NoTime

\* C7: the sync of a snapshot of track B while current_track_id is another
\* track A sets track_start_time to now - progress_ms/1000 of that snapshot,
\* in whole seconds, and current_track_id to B.
C7_TransitionRecomputesStart ==
    [][(SyncStep /\ poll_ev.kind = "track" /\ current_track_id # None
          /\ track_info.id # current_track_id)
         => /\ track_start_time' = (now - track_info.progress_ms) \div 1000
            /\ current_track_id' = track_info.id]_vars

C7_Witness ==
    /\ pc = "sleep"
    /\ poll_ev.kind = "track"
    /\ sync_ev.computed
    /\ sync_ev.from # None
    /\ current_track_id = track_info.id
    /\ current_track_id # sync_ev.from
    /\ track_start_time # now \div 1000

\* C8: when check_token() has returned true, an access token is present and
\* the time of the return is before token_expires.
C8_CheckTrueMeansUsable ==
    (tok_ev.op = "check_token" /\ tok_ev.ret = "true")
       => (access_token # None /\ tok_ev.t < token_expires)

C8_Witness ==
    /\ tok_ev.op = "check_token"
    /\ tok_ev.ret = "true"
    /\ tok_ev.path = "refresh"
    /\ access_token # None

\* C9: a get_initial_tokens() that returns false leaves access_token,
\* refresh_token, token_expires and the persisted record as they were.
C9_FailedExchangeKeepsState ==
    [][((PollStep \/ pc = "run") /\ tok_ev'.path = "authflow"
          /\ tok_ev'.ret = "false")
         => /\ access_token' = access_token
            /\ refresh_token' = refresh_token
            /\ token_expires' = token_expires
            /\ data_file' = data_file]_vars

\* C10: no exception leaves check_token(): it returns true or false.
C10_NoExceptionFromCheckToken ==
    tok_ev.op = "check_token" => tok_ev.ret \in {"true", "false"}

\* C11: once get_auth_code has returned, a handled /callback request with a
\* code (answered 200) means the returned code is that parameter value, and
\* a handled /callback request without a code (answered 400) means no code
\* was returned.
C11_ListenerHandsOverRequestCode ==
    auth_ev.returned
      => /\ auth_ev.response = "200" => auth_ev.auth_code = auth_ev.req_code
         /\ auth_ev.response = "400" => auth_ev.auth_code = None

\* C12: once the listener has answered a /callback request (200 or 400) and
\* get_auth_code has returned, no socket of the process is bound to the
\* redirect port.
C12_ListenerReleasesPort ==
    (auth_ev.returned /\ auth_ev.response \in {"200", "400"}) => ~PortBound

\* C13: an attempt whose listener timed out returns no code and sends no
\* token exchange request.
C13_TimeoutMeansNoCode ==
    auth_ev.timed_out
      => (auth_ev.auth_code = None /\ auth_ev.exchanged = None)

\* C20: no redirect sent after the URL was opened finds the listener not
\* bound, and the URL is not open in an attempt whose listener failed to
\* start.
C20_ListenerBoundBeforeRedirect ==
    /\ ~auth_ev.lost
    /\ ~(auth_ev.browser /\ auth_ev.bind_failed)

\* C14: when the process has stopped on a user interruption or on an
\* exception that left run(), and a presence connection existed, the
\* presence is cleared and close() has been called, also when clear() failed.
C14_ShutdownClearsAndCloses ==
    (pc = "stopped" /\ discord_rpc /\ (interrupted \/ exit_code = 1))
       => (closes >= 1 /\ presence = NoPresence)

\* C15: an exception raised by the poll or by the sync of a cycle is caught:
\* the loop keeps running, sleeps the cooldown and is at the next poll.
C15_CycleErrorIsIsolated ==
    [][((PollStep /\ tok_ev'.ret = "raise") \/ (pc = "sync" /\ sync_ev'.exc))
         => /\ pc' = "poll"
            /\ running'
            /\ exit_code' = NoTime
            /\ now' >= now + CooldownMs]_vars

C15_Witness ==
    /\ pc = "poll"
    /\ running
    /\ sync_ev.exc
    /\ tok_ev.op = "check_token"
    /\ tok_ev.ret = "raise"

\* C16 as claimed: the process stops only on a user interruption (the
\* configuration is loaded before the state this model starts in).
C16_StopsOnlyOnInterrupt ==
    pc = "stopped" => interrupted

\* C16 as amended: the process stops only on a user interruption or on a
\* failure of the authorization at startup (no code, an exception of
\* get_auth_code(), a failed token exchange) before the first poll; no error
\* ends the run once the loop is entered.
C16_StopsOnInterruptOrStartupFailure ==
    pc = "stopped"
       => \/ interrupted
          \/ /\ cycles = 0
             /\ tok_ev.op = "run"
             /\ tok_ev.ret \in {"false", "raise"}

C16_Witness ==
    /\ pc = "stopped"
    /\ ~interrupted
    /\ cycles = 0
    /\ tok_ev.op = "run"
    /\ tok_ev.ret = "false"

\* C17: a poll whose credential check returns false sends no request to the
\* playback API and returns no track; a poll that sends a request had a
\* credential check that returned true.
C17_RequestOnlyAfterValidCheck ==
    [][PollStep
         => /\ pc' = "sync" => (poll_ev'.api_request <=> tok_ev'.ret = "true")
            /\ tok_ev'.ret = "false"
                 => /\ pc' = "sync"
                    /\ ~poll_ev'.api_request
                    /\ poll_ev'.kind = "error"
                    /\ track_info' = NoInfo]_vars

C17_Witness ==
    /\ pc = "sync"
    /\ tok_ev.op = "check_token"
    /\ tok_ev.ret = "false"
    /\ poll_ev.kind = "error"
    /\ ~poll_ev.api_request

\* C18 as claimed: the sync of every track snapshot issues one update call
\* with start = track_start_time and end = start + duration_ms/1000 in whole
\* seconds, also for an unchanged track_id.
C18_SnapshotMeansOneUpdate ==
    [][(pc = "sync" /\ poll_ev.kind = "track")
         => /\ sync_ev'.call = "update"
            /\ sync_ev'.start = track_start_time'
            /\ sync_ev'.end = track_start_time'
                                + (track_info.duration_ms \div 1000)]_vars

\* C18 as amended: with a presence connection the sync of every track
\* snapshot issues that one update call; without one (connect_discord()
\* failed) it issues no call.
C18_SnapshotMeansOneUpdateIfConnected ==
    [][(pc = "sync" /\ poll_ev.kind = "track")
         => IF discord_rpc
            THEN /\ sync_ev'.call = "update"
                 /\ sync_ev'.start = track_start_time'
                 /\ sync_ev'.end = track_start_time'
                                     + (track_info.duration_ms \div 1000)
            ELSE sync_ev'.call = "none"]_vars

C18_Witness ==
    /\ pc = "sleep"
    /\ poll_ev.kind = "track"
    /\ sync_ev.call = "update"
    /\ ~sync_ev.computed
    /\ sync_ev.from = current_track_id
    /\ sync_ev.start = track_start_time
    /\ sync_ev.end = sync_ev.start + (track_info.duration_ms \div 1000)

\* C19: a sync whose presence call raises leaves SyncState as the same sync
\* leaves it when the call returns.
C19_RpcErrorKeepsSyncState ==
    [][(pc = "sync" /\ sync_ev'.raised)
         => LET ok == update_discord_status(SyncSt, track_info, now, TRUE).s
            IN  /\ current_track_id' = ok.current_track_id
                /\ track_start_time' = ok.track_start_time]_vars


\* C21: as long as no write of the data file has failed, a refresh token in
\* memory is also the refresh token of the persisted record, after the
\* startup load and after every token operation, whatever it returned.
C21_MemoryTokenIsPersisted ==
    (~tok_ev.write_failed /\ refresh_token # None)
      => data_file = refresh_token

\* C22: a step that starts with a refresh token in the persisted record
\* leaves a refresh token there; a step that clears the refresh token in
\* memory leaves the record as it was; a restarted process loads the
\* refresh token of the record.
C22_RecordKeepsToken ==
    [][data_file # None
         => /\ data_file' # None
            /\ (refresh_token # None /\ refresh_token' = None)
                  => data_file' = data_file
            /\ restarts' # restarts
                  => (refresh_token' = data_file /\ data_file' = data_file)]_vars

\* The refresh token in memory was cleared by a refused refresh and the
\* record still holds one.
C22_Witness == data_file # None /\ refresh_token = None /\ apc = "idle"

\* C23: in a process run cleanup() runs at most once and the close call of
\* the presence channel is issued at most once.
C23_CleanupAtMostOnce == cleanups <= 1 /\ closes <= 1

====
